---- MODULE Spec2Model ----
(***************************************************************************)
(* Batch ingestion and retrieval of sparti-receiver (src/db/index.ts).     *)
(*                                                                         *)
(* The relational store is the table sheet_data with its UNIQUE            *)
(* (batch_id, row_number) constraint.  Every await of the source (one      *)
(* round-trip to the store) is one atomic action; uploads run as           *)
(* independent calls that interleave at those awaits.                      *)
(*                                                                         *)
(* Array indices are the source's zero-based indices; At(arr, k) reads     *)
(* element k of a TLA+ sequence holding a JavaScript array.                *)
(***************************************************************************)
EXTENDS Integers, Sequences, FiniteSets, TLC

\* ------------------------------------------------------------------ bounds
\* Number of storeSheetData calls of one behaviour (they may overlap).
MaxCalls == 2
\* Longest sheetData array of a call.
MaxRows == 5
\* Number of write acknowledgements the network may lose in one behaviour.
MaxLostAcks == 1
\* Longest sheetData array of a call that overlaps another call in time.
MaxOverlapRows == 3
\* Number of rows all the calls of one behaviour carry together.
MaxTotalRows == 5

\* -------------------------------------------------------- program constants
\* CHUNK_SIZE (5000 in the source) and the large-dataset threshold (10000 in
\* the source), both divided by 2500 so that lists of at most MaxRows rows
\* reach one, two and three chunks and both sides of the threshold.
CHUNK_SIZE == 2
LargeThreshold == 4

Calls == 1..MaxCalls

\* No response of a read is at hand.  A response records the operation, its
\* argument, the status code of the AppError thrown (0: none), the value
\* returned, and whether it answers the same read as the response before it.
NoRead ==
    [op |-> "none", arg |-> 0, threw |-> 0, rows |-> <<>>, ids |-> <<>>,
     again |-> FALSE]
NoResult == [success |-> FALSE, batchId |-> 0, inserted |-> 0, errors |-> <<>>]
NoRaise == [statusCode |-> 0, message |-> ""]
\* No request has arrived.
NoRequest == [arrived |-> FALSE, parsed |-> FALSE, present |-> FALSE,
              isArray |-> FALSE, rows |-> <<>>]
\* No GET request has been answered against the current store.
NoReply == [route |-> "none", param |-> <<>>, status |-> 0, count |-> 0]

VARIABLES
    store,          \* rows of table sheet_data
    nextId,         \* next value of the SERIAL column id
    pc,             \* per call: the await it is suspended at
    sheetDataArray, \* per call: the argument of storeSheetData
    batchId,        \* per call: the id returned by getNextBatchId (0: none yet)
    chunkIndex,     \* per call: loop variable of insertRowsInChunks
    rowIdx,         \* per call: loop variable i of the per-row loop
    insertedCount,  \* per call: insertedCount of insertRowsInChunks
    errors,         \* per call: errors of insertRowsInChunks
    result,         \* per call: the StoreSheetDataResult returned
    raised,         \* per call: the AppError thrown
    before,         \* per call: the calls that had ended when it started
    lostAcks,       \* per call: writes persisted by the store, reported failed
    attempts,       \* per call: the writes it has issued, in order
    lastRead,       \* the response of the latest read of the current store
    request,        \* per call: the body of its POST request
    responses,      \* per call: the HTTP responses sent for its request
    reply           \* the HTTP response to the latest GET request

vars == <<store, nextId, pc, sheetDataArray, batchId, chunkIndex, rowIdx,
          insertedCount, errors, result, raised, before, lostAcks, attempts,
          lastRead, request, responses, reply>>

callVars == <<pc, sheetDataArray, batchId, chunkIndex, rowIdx, insertedCount,
              errors, result, raised, before, lostAcks, attempts, request,
              responses>>

\* ----------------------------------------------------------------- helpers
At(arr, k) == arr[k + 1]

Min(a, b) == IF a < b THEN a ELSE b

\* The decimal digits, and the value of a string of them.
DigitChars == <<"0", "1", "2", "3", "4", "5", "6", "7", "8", "9">>

DigitValue(ch) == (CHOOSE j \in 1..Len(DigitChars) : DigitChars[j] = ch) - 1

IsDigit(ch) == \E j \in 1..Len(DigitChars) : DigitChars[j] = ch

RECURSIVE DigitsPrefix(_)
DigitsPrefix(str) ==
    IF str = <<>> \/ ~IsDigit(Head(str)) THEN <<>>
    ELSE <<Head(str)>> \o DigitsPrefix(Tail(str))

RECURSIVE DecimalValue(_)
DecimalValue(digits) ==
    IF digits = <<>> THEN 0
    ELSE DecimalValue(SubSeq(digits, 1, Len(digits) - 1)) * Len(DigitChars)
             + DigitValue(digits[Len(digits)])

\* Math.floor(n / size)
FloorDiv(n, size) == n \div size

\* Math.ceil(n / size)
CeilDiv(n, size) == (n + size - 1) \div size

\* The sheetData arrays call c may carry: n rows whose payloads alternate, so
\* that neighbouring rows differ, and so do the rows that two consecutive
\* calls carry at one index.
MkRows(n, c) ==
    [j \in 1..n |-> IF (j + c) % 2 = 0 THEN "p" ELSE "q"]

Inputs(c) == {MkRows(n, c) : n \in 1..MaxRows}

\* The body of a POST request: JSON whose sheetData is an array (possibly
\* empty), is something that is not an array, or is missing; or a body that
\* express.json() cannot parse.
Requests(c) ==
    {[arrived |-> TRUE, parsed |-> TRUE, present |-> TRUE, isArray |-> TRUE,
      rows |-> r] : r \in Inputs(c) \cup {<<>>}}
    \cup {[arrived |-> TRUE, parsed |-> TRUE, present |-> TRUE,
           isArray |-> FALSE, rows |-> <<>>],
          [arrived |-> TRUE, parsed |-> TRUE, present |-> FALSE,
           isArray |-> FALSE, rows |-> <<>>],
          [arrived |-> TRUE, parsed |-> FALSE, present |-> FALSE,
           isArray |-> FALSE, rows |-> <<>>]}

\* ---------------------------------------------------------- HTTP responses
\* The error response sent with the default status code.
SendErrorResponseDefault(error, statusCode) ==
    [status |-> 500, success |-> FALSE, error |-> error,
     batchId |-> 0, inserted |-> 0, errors |-> <<>>]

\* res.status(statusCode).json({success: false, error, message})
SendErrorResponse(error, statusCode) ==
    [status |-> statusCode, success |-> FALSE, error |-> error,
     batchId |-> 0, inserted |-> 0, errors |-> <<>>]

\* res.status(statusCode).json({success: true, message, data})
SendSuccessResponse(bid, inserted, errs, statusCode) ==
    [status |-> statusCode, success |-> TRUE, error |-> "",
     batchId |-> bid, inserted |-> inserted, errors |-> errs]

\* An error handed to the error middleware: an AppError with its status
\* code, or another Error, of whose message the middleware looks for the
\* words "ECONNREFUSED" or "connection" and "validation" or "invalid".
AppError(message, statusCode) ==
    [isAppError |-> TRUE, statusCode |-> statusCode, message |-> message,
     mentions |-> "none"]

\* The errors with which express.json() refuses a body: their messages are
\* those of the parser, which is not part of the repository.
BodyParserErrors ==
    {[isAppError |-> FALSE, statusCode |-> 0, message |-> "body", mentions |-> m] :
        m \in {"connection", "validation", "none"}}

\* errorHandler(err, req, res, next)
ErrorHandler(err) ==
    IF err.isAppError
    THEN SendErrorResponse(err.message, err.statusCode)
    ELSE IF err.mentions = "connection"
    THEN SendErrorResponse("Database connection failed", 503)
    ELSE IF err.mentions = "validation"
    THEN SendErrorResponse("Validation error", 400)
    ELSE SendErrorResponse("Internal server error", 500)

\* The handler without its branch for partial success.
UploadResponseAlways200(r) ==
    SendSuccessResponse(r.batchId, r.inserted, <<>>, 200)

\* The handler after storeSheetData has returned: 207 with the errors, or 200.
UploadResponse(r) ==
    IF Len(r.errors) > 0
    THEN SendSuccessResponse(r.batchId, r.inserted, r.errors, 207)
    ELSE SendSuccessResponse(r.batchId, r.inserted, <<>>, 200)

\* ------------------------------------------------------------------- store
\* SELECT COALESCE(MAX(batch_id), 0) + 1
MaxOf(S) == CHOOSE m \in S : \A x \in S : x <= m

\* SELECT COUNT(*) + 1: the rows counted, not their batch ids.
NextBatchIdByCount(st) == Cardinality(st) + 1

\* An allocator that also counts the ids handed to the calls so far.
NextBatchIdReserved(st) ==
    MaxOf({r.batchId : r \in st} \cup {batchId[c] : c \in Calls}) + 1

NextBatchIdQuery(st) ==
    IF st = {} THEN 1 ELSE MaxOf({r.batchId : r \in st}) + 1

\* sheetDataArray.map((row, index) => ({batchId, rowNumber: index + 1, data: row}))
InsertData(arr, bid) ==
    [j \in 1..Len(arr) |->
        [batchId |-> bid, rowNumber |-> (j - 1) + 1, data |-> arr[j]]]

\* insertData.slice(start, end)
Slice(seq, start, end) == SubSeq(seq, start + 1, end)

\* The constraint checked for the first row of a statement only.
ConflictsOnFirstRow(st, values) ==
    \E r \in st :
        r.batchId = values[1].batchId /\ r.rowNumber = values[1].rowNumber

\* CONSTRAINT unique_batch_row UNIQUE (batch_id, row_number)
Conflicts(st, values) ==
    \E r \in st : \E j \in 1..Len(values) :
        r.batchId = values[j].batchId /\ r.rowNumber = values[j].rowNumber

\* The rows one INSERT statement adds: ids are taken from the serial in the
\* order of the VALUES list.  owner is not a column: it records the call
\* that issued the statement.
Persisted(values, firstId, c) ==
    {[id |-> firstId + j - 1, batchId |-> values[j].batchId,
      rowNumber |-> values[j].rowNumber, data |-> values[j].data,
      owner |-> c] : j \in 1..Len(values)}

\* The round-trip against a table without its unique constraint.
WriteOutcomesUnconstrained(st, values, lost) ==
    {"ok", "unavailable"} \cup (IF lost < MaxLostAcks THEN {"lost_ack"} ELSE {})

\* What one db.insert(...).values(...) round-trip can do.  The statement is
\* atomic: it adds all its rows or none.  The promise resolves ("ok"), or
\* rejects having added nothing (a unique violation, or the store being
\* unavailable), or rejects although the store committed the statement (the
\* connection broke or timed out before the acknowledgement arrived).
WriteOutcomes(st, values, lost) ==
    IF Conflicts(st, values)
    THEN {"unique_violation"}
    ELSE {"ok", "unavailable"} \cup
         (IF lost < MaxLostAcks THEN {"lost_ack"} ELSE {})

\* ORDER BY row_number ASC over the rows of one batch.
RECURSIVE SortByRowNumber(_)
SortByRowNumber(S) ==
    IF S = {} THEN <<>>
    ELSE LET r == CHOOSE x \in S : \A y \in S : x.rowNumber <= y.rowNumber
         IN  <<r>> \o SortByRowNumber(S \ {r})

\* The columns a SELECT returns (createdAt is not modelled).
Columns(r) ==
    [id |-> r.id, batchId |-> r.batchId, rowNumber |-> r.rowNumber,
     data |-> r.data]

\* The same query without its WHERE clause.
SelectEveryBatch(st, b) ==
    LET sorted == SortByRowNumber(st)
    IN  [j \in 1..Len(sorted) |-> Columns(sorted[j])]

\* The same query restricted to the rows of the call that wrote the batch's
\* first row.
SelectBatchOfFirstWriter(st, b) ==
    LET batch == {r \in st : r.batchId = b}
        first == CHOOSE r \in batch : \A q \in batch : r.id <= q.id
        sorted == SortByRowNumber({r \in batch : r.owner = first.owner})
    IN  [j \in 1..Len(sorted) |-> Columns(sorted[j])]

\* db.select().from(sheetData).where(eq(batchId)).orderBy(asc(rowNumber))
SelectBatch(st, b) ==
    LET sorted == SortByRowNumber({r \in st : r.batchId = b})
    IN  [j \in 1..Len(sorted) |-> Columns(sorted[j])]

MinOf(S) == CHOOSE m \in S : \A x \in S : m <= x

\* ORDER BY batch_id ASC
RECURSIVE SortAsc(_)
SortAsc(S) ==
    IF S = {} THEN <<>>
    ELSE LET m == MinOf(S) IN <<m>> \o SortAsc(S \ {m})

\* The same query in ascending order.
SelectDistinctBatchIdsAsc(st) == SortAsc({r.batchId : r \in st})

\* SELECT DISTINCT batch_id FROM sheet_data ORDER BY batch_id DESC
RECURSIVE SortDesc(_)
SortDesc(S) ==
    IF S = {} THEN <<>>
    ELSE LET m == MaxOf(S) IN <<m>> \o SortDesc(S \ {m})

SelectDistinctBatchIds(st) == SortDesc({r.batchId : r \in st})

Resolves(outcome) == outcome = "ok"

Commits(outcome) == outcome \in {"ok", "lost_ack"}

\* --------------------------------------------------------------------- Init
Init ==
    /\ store = {}
    /\ nextId = 1
    /\ pc = [c \in Calls |-> "idle"]
    /\ sheetDataArray = [c \in Calls |-> <<>>]
    /\ batchId = [c \in Calls |-> 0]
    /\ chunkIndex = [c \in Calls |-> 0]
    /\ rowIdx = [c \in Calls |-> 0]
    /\ insertedCount = [c \in Calls |-> 0]
    /\ errors = [c \in Calls |-> <<>>]
    /\ result = [c \in Calls |-> NoResult]
    /\ raised = [c \in Calls |-> NoRaise]
    /\ before = [c \in Calls |-> {}]
    /\ lostAcks = [c \in Calls |-> 0]
    /\ attempts = [c \in Calls |-> <<>>]
    /\ lastRead = NoRead
    /\ request = [c \in Calls |-> NoRequest]
    /\ responses = [c \in Calls |-> <<>>]
    /\ reply = NoReply


\* ----------------------------------------------------------- storeSheetData
Ended(c) == pc[c] \in {"returned", "raised"}

InFlight(c) == pc[c] \in {"alloc", "bulk", "chunk", "row"}

RECURSIVE SumTo(_, _)
SumTo(f, n) == IF n = 0 THEN 0 ELSE f[n] + SumTo(f, n - 1)

TotalLost == SumTo(lostAcks, MaxCalls)

RowsCarried == SumTo([d \in Calls |-> Len(sheetDataArray[d])], MaxCalls)

\* res.status(...).json(...): one response sent for the request of call c.
Send(c, response) ==
    responses' = [responses EXCEPT ![c] = Append(@, response)]

\* The wrapper without its catch: the rejection reaches no one.
AsyncHandlerNoCatch(c, err) == UNCHANGED responses

\* Promise.resolve(fn(req, res, next)).catch(next): the rejection of the
\* handler reaches the error middleware, which answers.
AsyncHandlerCatch(c, err) == Send(c, ErrorHandler(err))

\* throw new AppError(message, statusCode): the call ends, and with it the
\* handler that awaits it.
Throw(c, statusCode, message) ==
    /\ pc' = [pc EXCEPT ![c] = "raised"]
    /\ raised' = [raised EXCEPT ![c] =
                      [statusCode |-> statusCode, message |-> message]]
    /\ AsyncHandlerCatch(c, AppError(message, statusCode))
    /\ UNCHANGED <<batchId, chunkIndex, rowIdx, insertedCount, errors, result>>

\* return {success: true, batchId, inserted, errors}: the call ends, the
\* locals of insertRowsInChunks go out of scope, and the handler that awaits
\* the call answers.
Return(c, inserted, errs) ==
    /\ pc' = [pc EXCEPT ![c] = "returned"]
    /\ result' = [result EXCEPT ![c] =
                      [success |-> TRUE, batchId |-> batchId[c],
                       inserted |-> inserted, errors |-> errs]]
    /\ Send(c, UploadResponse(result'[c]))
    /\ chunkIndex' = [chunkIndex EXCEPT ![c] = 0]
    /\ rowIdx' = [rowIdx EXCEPT ![c] = 0]
    /\ insertedCount' = [insertedCount EXCEPT ![c] = 0]
    /\ errors' = [errors EXCEPT ![c] = <<>>]
    /\ UNCHANGED <<batchId, raised>>

\* The round-trip as a replacement of the batch: its rows are deleted and
\* the statement's rows inserted.
InsertOverwrites(c, tier, start, end, values, outcome) ==
    /\ store' = IF Commits(outcome)
                THEN {r \in store : r.batchId # batchId[c]}
                         \cup Persisted(values, nextId, c)
                ELSE store
    /\ nextId' = IF Commits(outcome) THEN nextId + Len(values) ELSE nextId
    /\ lostAcks' = IF outcome = "lost_ack"
                   THEN [lostAcks EXCEPT ![c] = @ + 1] ELSE lostAcks
    /\ attempts' = [attempts EXCEPT ![c] =
                       Append(@, [tier |-> tier, start |-> start, end |-> end,
                                  outcome |-> outcome])]
    /\ lastRead' = IF Commits(outcome) THEN NoRead ELSE lastRead
    /\ reply' = IF Commits(outcome) THEN NoReply ELSE reply

\* One db.insert(sheetData).values(values) round-trip of call c with the
\* given outcome; values are rows start..end-1 of insertData.
Insert(c, tier, start, end, values, outcome) ==
    /\ store' = IF Commits(outcome)
                THEN store \cup Persisted(values, nextId, c) ELSE store
    /\ nextId' = IF Commits(outcome) THEN nextId + Len(values) ELSE nextId
    /\ lostAcks' = IF outcome = "lost_ack"
                   THEN [lostAcks EXCEPT ![c] = @ + 1] ELSE lostAcks
    /\ attempts' = [attempts EXCEPT ![c] =
                       Append(@, [tier |-> tier, start |-> start, end |-> end,
                                  outcome |-> outcome])]
    /\ lastRead' = IF Commits(outcome) THEN NoRead ELSE lastRead
    /\ reply' = IF Commits(outcome) THEN NoReply ELSE reply

\* const useChunkedInserts = totalRows >= 10000
UseChunkedInsertsFromThreshold(totalRows) == totalRows >= LargeThreshold

\* const useChunkedInserts = totalRows > 10000
UseChunkedInserts(totalRows) == totalRows > LargeThreshold

\* const totalChunks = Math.ceil(insertData.length / chunkSize)
TotalChunks(c) == CeilDiv(Len(sheetDataArray[c]), CHUNK_SIZE)

\* The chunks taken from the last to the first.
ChunkStartFromLast(c) == (TotalChunks(c) - 1 - chunkIndex[c]) * CHUNK_SIZE

\* const start = chunkIndex * chunkSize
ChunkStart(c) == chunkIndex[c] * CHUNK_SIZE

\* const end = Math.min(start + chunkSize, insertData.length)
ChunkEnd(c) == Min(ChunkStart(c) + CHUNK_SIZE, Len(sheetDataArray[c]))

\* storeSheetData(sheetData) is called and validates its argument.
StoreSheetData(c, req) ==
    /\ sheetDataArray' = [sheetDataArray EXCEPT ![c] = req.rows]
    /\ before' = [before EXCEPT ![c] = {d \in Calls : Ended(d)}]
    /\ IF ~req.isArray
       THEN Throw(c, 400, "sheetData must be an array")
       ELSE IF Len(req.rows) = 0
       THEN Throw(c, 400, "sheetData array cannot be empty")
       ELSE /\ pc' = [pc EXCEPT ![c] = "alloc"]
            /\ UNCHANGED <<batchId, chunkIndex, rowIdx, insertedCount,
                           errors, result, raised, responses>>

\* The request is answered without storeSheetData having been called.
Answer(c, response) ==
    /\ pc' = [pc EXCEPT ![c] = "answered"]
    /\ Send(c, response)
    /\ UNCHANGED <<sheetDataArray, before, batchId, chunkIndex, rowIdx,
                   insertedCount, errors, result, raised>>

\* POST /api/upload-sheet-data: express.json() parses the body, the handler
\* validates sheetData and calls storeSheetData.  Requests are numbered in
\* the order of their arrival.
PostUploadSheetData(c) ==
    /\ pc[c] = "idle"
    /\ \A d \in Calls : d < c => pc[d] # "idle"
    /\ \E req \in Requests(c) :
        /\ \A d \in Calls \ {c} :
              InFlight(d) => /\ Len(req.rows) <= MaxOverlapRows
                             /\ Len(sheetDataArray[d]) <= MaxOverlapRows
        /\ Len(req.rows) + RowsCarried <= MaxTotalRows
        /\ request' = [request EXCEPT ![c] = req]
        /\ IF ~req.parsed
           THEN \E err \in BodyParserErrors : Answer(c, ErrorHandler(err))
           ELSE IF ~req.present
           THEN Answer(c, SendErrorResponse(
                            "No sheetData provided in the request body", 400))
           ELSE IF ~req.isArray
           THEN Answer(c, SendErrorResponse("sheetData must be an array", 400))
           ELSE IF Len(req.rows) = 0
           THEN Answer(c, SendErrorResponse(
                            "sheetData array cannot be empty", 400))
           ELSE StoreSheetData(c, req)
    /\ UNCHANGED <<store, nextId, lostAcks, attempts, lastRead, reply>>

\* What the allocation query's round-trip can answer.
AllocResponses == {"ok", "rejects", "no_row", "not_a_number"}

\* getNextBatchId with its failures noted and answered by batch id 1.
GetNextBatchIdFallsBack(c) ==
    /\ pc[c] = "alloc"
    /\ \E resp \in AllocResponses :
        /\ batchId' = [batchId EXCEPT ![c] =
                IF resp = "ok" THEN NextBatchIdQuery(store) ELSE 1]
        /\ raised' = [raised EXCEPT ![c] =
                IF resp = "ok" THEN @
                ELSE [statusCode |-> 500, message |-> resp]]
        /\ pc' = [pc EXCEPT ![c] =
                IF UseChunkedInserts(Len(sheetDataArray[c]))
                THEN "chunk" ELSE "bulk"]
        /\ UNCHANGED <<chunkIndex, rowIdx, insertedCount, errors, result,
                       responses>>
    /\ UNCHANGED <<store, nextId, sheetDataArray, before, lostAcks, attempts,
                   lastRead, request, reply>>

\* const batchId = await getNextBatchId(tableName), then the choice of path.
GetNextBatchId(c) ==
    /\ pc[c] = "alloc"
    /\ \E resp \in AllocResponses :
        CASE resp = "rejects" ->
                Throw(c, 500, "Failed to get next batch ID")
          [] resp = "no_row" ->
                Throw(c, 500, "Failed to retrieve batch ID from database")
          [] resp = "not_a_number" ->
                Throw(c, 500, "Invalid batch ID returned from database")
          [] resp = "ok" ->
                /\ batchId' = [batchId EXCEPT ![c] = NextBatchIdQuery(store)]
                /\ pc' = [pc EXCEPT ![c] =
                        IF UseChunkedInserts(Len(sheetDataArray[c]))
                        THEN "chunk" ELSE "bulk"]
                /\ UNCHANGED <<chunkIndex, rowIdx, insertedCount, errors,
                               result, raised, responses>>
    /\ UNCHANGED <<store, nextId, sheetDataArray, before, lostAcks, attempts,
                   lastRead, request, reply>>

\* const batchInsertResult = await db.insert(sheetData).values(insertData)
BulkInsert(c) ==
    /\ pc[c] = "bulk"
    /\ LET values == InsertData(sheetDataArray[c], batchId[c]) IN
       \E outcome \in WriteOutcomes(store, values, TotalLost) :
        /\ Insert(c, "bulk", 0, Len(values), values, outcome)
        /\ IF Resolves(outcome)
           THEN Return(c, Len(sheetDataArray[c]), <<>>)
           ELSE /\ pc' = [pc EXCEPT ![c] = "chunk"]
                /\ UNCHANGED <<batchId, chunkIndex, rowIdx, insertedCount,
                               errors, result, raised, responses>>
    /\ UNCHANGED <<sheetDataArray, before, request>>

\* The end of one iteration of the chunk loop: the next chunk, or the return
\* of insertRowsInChunks and with it of storeSheetData.
EndOfChunk(c, inserted, errs) ==
    IF chunkIndex[c] + 1 < TotalChunks(c)
    THEN /\ pc' = [pc EXCEPT ![c] = "chunk"]
         /\ chunkIndex' = [chunkIndex EXCEPT ![c] = @ + 1]
         /\ rowIdx' = [rowIdx EXCEPT ![c] = 0]
         /\ insertedCount' = [insertedCount EXCEPT ![c] = inserted]
         /\ errors' = [errors EXCEPT ![c] = errs]
         /\ UNCHANGED <<batchId, result, raised, responses>>
    ELSE Return(c, inserted, errs)

\* insertedCount += chunkSize: every chunk counted as a full one.
AddChunkFull(count, chunk) == count + CHUNK_SIZE

\* insertedCount += chunk.length
AddChunk(count, chunk) == count + Len(chunk)

\* A failed chunk left behind: the loop goes on with the next chunk.
AfterChunkGivesUp(c, chunk, outcome) ==
    EndOfChunk(c, IF Resolves(outcome)
                  THEN AddChunk(insertedCount[c], chunk) ELSE insertedCount[c],
               errors[c])

\* The per-row loop entered after every chunk write, succeeded or failed.
AfterChunkAlwaysRows(c, chunk, outcome) ==
    /\ pc' = [pc EXCEPT ![c] = "row"]
    /\ rowIdx' = [rowIdx EXCEPT ![c] = ChunkStart(c)]
    /\ insertedCount' = [insertedCount EXCEPT ![c] =
            IF Resolves(outcome) THEN AddChunk(@, chunk) ELSE @]
    /\ UNCHANGED <<batchId, chunkIndex, errors, result, raised, responses>>

\* The chunk write has settled: count its rows, or fall to the per-row loop.
AfterChunk(c, chunk, outcome) ==
    IF Resolves(outcome)
    THEN EndOfChunk(c, AddChunk(insertedCount[c], chunk), errors[c])
    ELSE /\ pc' = [pc EXCEPT ![c] = "row"]
         /\ rowIdx' = [rowIdx EXCEPT ![c] = ChunkStart(c)]
         /\ UNCHANGED <<batchId, chunkIndex, insertedCount, errors, result,
                        raised, responses>>

\* The chunk write with a failed chunk written again instead of row by row.
InsertChunkRetry(c) ==
    /\ pc[c] = "chunk"
    /\ LET start == ChunkStart(c)
           end == ChunkEnd(c)
           chunk == Slice(InsertData(sheetDataArray[c], batchId[c]), start, end)
       IN
       \E outcome \in WriteOutcomes(store, chunk, TotalLost) :
        IF Resolves(outcome)
        THEN /\ Insert(c, "chunk", start, end, chunk, outcome)
             /\ AfterChunk(c, chunk, outcome)
             /\ UNCHANGED <<sheetDataArray, before, request>>
        ELSE UNCHANGED vars

\* const chunkResult = await db.insert(sheetData).values(chunk)
InsertChunk(c) ==
    /\ pc[c] = "chunk"
    /\ LET start == ChunkStart(c)
           end == ChunkEnd(c)
           chunk == Slice(InsertData(sheetDataArray[c], batchId[c]), start, end)
       IN
       \E outcome \in WriteOutcomes(store, chunk, TotalLost) :
        /\ Insert(c, "chunk", start, end, chunk, outcome)
        /\ AfterChunk(c, chunk, outcome)
    /\ UNCHANGED <<sheetDataArray, before, request>>

\* The RowError with the one-based number as its rowIndex.
RowErrorOneBased(c, k, outcome) ==
    [rowIndex |-> k + 1, rowNumber |-> k + 1,
     rowData |-> At(sheetDataArray[c], k), error |-> outcome]

\* The RowError with the first input row as its rowData.
RowErrorFirstRow(c, k, outcome) ==
    [rowIndex |-> k, rowNumber |-> k + 1,
     rowData |-> At(sheetDataArray[c], 0), error |-> outcome]

\* errors.push({rowIndex: i, rowNumber: i + 1, rowData: sheetDataArray[i], error})
RowError(c, k, outcome) ==
    [rowIndex |-> k, rowNumber |-> k + 1,
     rowData |-> At(sheetDataArray[c], k), error |-> outcome]

\* The per-row loop with the count of the row just written dropped.
EndOfRowLosesCount(c, k, inserted, errs) ==
    IF k + 1 < ChunkEnd(c)
    THEN /\ rowIdx' = [rowIdx EXCEPT ![c] = k + 1]
         /\ UNCHANGED insertedCount
         /\ errors' = [errors EXCEPT ![c] = errs]
         /\ UNCHANGED <<pc, batchId, chunkIndex, result, raised, responses>>
    ELSE EndOfChunk(c, insertedCount[c], errs)

\* The end of one iteration of the per-row loop: i++, or the end of the chunk.
EndOfRow(c, k, inserted, errs) ==
    IF k + 1 < ChunkEnd(c)
    THEN /\ rowIdx' = [rowIdx EXCEPT ![c] = k + 1]
         /\ insertedCount' = [insertedCount EXCEPT ![c] = inserted]
         /\ errors' = [errors EXCEPT ![c] = errs]
         /\ UNCHANGED <<pc, batchId, chunkIndex, result, raised, responses>>
    ELSE EndOfChunk(c, inserted, errs)

\* The row write without its catch: the rejection leaves storeSheetData.
AfterRowUncaught(c, k, outcome) ==
    IF Resolves(outcome)
    THEN EndOfRow(c, k, insertedCount[c] + 1, errors[c])
    ELSE Throw(c, 500, outcome)

\* A failed row write ends the per-row loop of its chunk.
AfterRowStopsChunk(c, k, outcome) ==
    IF Resolves(outcome)
    THEN EndOfRow(c, k, insertedCount[c] + 1, errors[c])
    ELSE EndOfChunk(c, insertedCount[c],
                    Append(errors[c], RowError(c, k, outcome)))

\* The row write has settled: insertedCount++, or the catch pushes a RowError.
AfterRow(c, k, outcome) ==
    IF Resolves(outcome)
    THEN EndOfRow(c, k, insertedCount[c] + 1, errors[c])
    ELSE EndOfRow(c, k, insertedCount[c],
                  Append(errors[c], RowError(c, k, outcome)))

\* const insertResult = await db.insert(sheetData).values(insertData[i])
InsertRow(c) ==
    /\ pc[c] = "row"
    /\ LET k == rowIdx[c]
           values == <<At(InsertData(sheetDataArray[c], batchId[c]), k)>>
       IN
       \E outcome \in WriteOutcomes(store, values, TotalLost) :
        /\ Insert(c, "row", k, k + 1, values, outcome)
        /\ AfterRow(c, k, outcome)
    /\ UNCHANGED <<sheetDataArray, before, request>>

\* ------------------------------------------------------------------- reads
\* The :batchId parameters a reader may send, as strings of characters: a
\* number that is not positive, a word, a positive number, and a positive
\* number followed by a letter.
Params == {<<"0">>, <<"x">>, <<"1">>, <<"2", "x">>}

\* Not a number.
NaN == [nan |-> TRUE, value |-> 0]

\* parseInt(str, 10): an optional sign, then the longest run of decimal
\* digits the string starts with; NaN when that run is empty.
ParseInt(str) ==
    LET signed == Len(str) > 0 /\ str[1] \in {"-", "+"}
        digits == DigitsPrefix(IF signed THEN Tail(str) ELSE str)
    IN  IF digits = <<>> THEN NaN
        ELSE [nan |-> FALSE,
              value |-> IF str[1] = "-" THEN 0 - DecimalValue(digits)
                        ELSE DecimalValue(digits)]

\* The response of a read: what it threw or returned.
Response(op, arg, threw, rows, ids) ==
    [op |-> op, arg |-> arg, threw |-> threw, rows |-> rows, ids |-> ids,
     again |-> /\ threw = 0 /\ lastRead.threw = 0
               /\ lastRead.op = op /\ lastRead.arg = arg]

\* The same query without its ORDER BY: the rows come in ascending or in
\* descending order.
FetchBatchDataUnordered(b) ==
    /\ \E resp \in {"ok", "reversed"} :
        LET sorted == SelectBatch(store, b)
            n == Len(sorted)
        IN  lastRead' =
                IF b < 1
                THEN Response("fetch", b, 400, <<>>, <<>>)
                ELSE IF resp = "ok"
                THEN Response("fetch", b, 0, sorted, <<>>)
                ELSE Response("fetch", b, 0,
                              [j \in 1..n |-> sorted[n + 1 - j]], <<>>)
    /\ UNCHANGED <<store, nextId>>
    /\ UNCHANGED callVars

\* The response of the handler of a GET route.
Reply(route, param, status, count) ==
    [route |-> route, param |-> param, status |-> status, count |-> count]

\* fetchBatchData(batchId)
FetchBatchData(b) ==
    /\ \E resp \in {"ok", "rejects"} :
        lastRead' =
            IF b < 1
            THEN Response("fetch", b, 400, <<>>, <<>>)
            ELSE IF resp = "rejects"
            THEN Response("fetch", b, 500, <<>>, <<>>)
            ELSE Response("fetch", b, 0, SelectBatch(store, b), <<>>)
    /\ UNCHANGED <<store, nextId>>
    /\ UNCHANGED callVars

\* getAllBatchIds()
GetAllBatchIds ==
    /\ \E resp \in {"ok", "rejects"} :
        lastRead' =
            IF resp = "rejects"
            THEN Response("list", 0, 500, <<>>, <<>>)
            ELSE Response("list", 0, 0, <<>>, SelectDistinctBatchIds(store))
    /\ UNCHANGED <<store, nextId>>
    /\ UNCHANGED callVars

\* GET /api/batch/:batchId: 400 from the handler, or fetchBatchData and then
\* 404 or 200, or the status of the AppError that reaches the error
\* middleware.  A request the handler rejects reads nothing.
GetBatch(param) ==
    LET batchIdParsed == ParseInt(param) IN
    IF batchIdParsed.nan \/ batchIdParsed.value < 1
    THEN /\ reply' = Reply("batch", param, 400, 0)
         /\ lastRead' = NoRead
         /\ UNCHANGED <<store, nextId>>
         /\ UNCHANGED callVars
    ELSE /\ FetchBatchData(batchIdParsed.value)
         /\ reply' =
                IF lastRead'.threw # 0
                THEN Reply("batch", param,
                           ErrorHandler(AppError("Failed to fetch batch data",
                                                 lastRead'.threw)).status, 0)
                ELSE IF Len(lastRead'.rows) = 0
                THEN Reply("batch", param, 404, 0)
                ELSE Reply("batch", param, 200, Len(lastRead'.rows))

\* GET /api/batches
GetBatches ==
    /\ GetAllBatchIds
    /\ reply' =
           IF lastRead'.threw # 0
           THEN Reply("batches", <<>>,
                      ErrorHandler(AppError("Failed to fetch batch IDs",
                                            lastRead'.threw)).status, 0)
           ELSE Reply("batches", <<>>, 200, Len(lastRead'.ids))

\* -------------------------------------------------------------------- Next
\* One step of one upload.
Upload(c) ==
    \/ PostUploadSheetData(c)
    \/ GetNextBatchId(c)
    \/ BulkInsert(c)
    \/ InsertChunk(c)
    \/ InsertRow(c)

Next ==
    \/ \E c \in Calls : Upload(c)
    \/ \E param \in Params : GetBatch(param)
    \/ GetBatches

Spec == Init /\ [][Next]_vars

\* Uploads alone, each round-trip of which eventually completes.
NextUploads == \E c \in Calls : Upload(c)

SpecLive ==
    Init /\ [][NextUploads]_vars /\ \A c \in Calls : WF_vars(Upload(c))

\* ================================================================== claims
Returned(c) == pc[c] = "returned"

TotalRows(c) == Len(sheetDataArray[c])

\* The rows call c itself has put into the store under the batch id it returned.
OwnRows(c) ==
    {r \in store : r.owner = c /\ r.batchId = result[c].batchId}

\* Input row k (zero-based) of call c is in the store, written by c.
RowPersisted(c, k) ==
    \E r \in OwnRows(c) :
        r.rowNumber = k + 1 /\ r.data = At(sheetDataArray[c], k)

ErrorIndices(c) ==
    {result[c].errors[j].rowIndex : j \in 1..Len(result[c].errors)}

Failed(c, tier) ==
    \E j \in 1..Len(attempts[c]) :
        attempts[c][j].tier = tier /\ ~Resolves(attempts[c][j].outcome)

Succeeded(c, tier) ==
    \E j \in 1..Len(attempts[c]) :
        attempts[c][j].tier = tier /\ Resolves(attempts[c][j].outcome)

\* C1: whenever storeSheetData has returned for a list of N rows, whatever
\* bulk, chunk and row writes failed, inserted + length(errors) = N.
C1_InsertedPlusErrors ==
    \A c \in Calls :
        Returned(c) =>
            result[c].inserted + Len(result[c].errors) = TotalRows(c)

\* A call has returned after a failed bulk write, a failed and a succeeded
\* chunk write, and a failed and a succeeded row write.
C1_Witness ==
    \E c \in Calls :
        /\ Returned(c)
        /\ Failed(c, "bulk") /\ Failed(c, "chunk") /\ Failed(c, "row")
        /\ Succeeded(c, "chunk") /\ Succeeded(c, "row")

\* The result is exact for call c: inserted counts the rows of c that are in
\* the store, and errors names the rows of c that are not.
ResultExact(c) ==
    /\ result[c].inserted = Cardinality(OwnRows(c))
    /\ ErrorIndices(c) = {k \in 0..(TotalRows(c) - 1) : ~RowPersisted(c, k)}

\* C2 as stated: when storeSheetData returns, inserted is the number of its
\* rows persisted under the returned batch id and errors names exactly the
\* rows not persisted, for every pattern of write failures, a round-trip
\* that failed by timing out included.
C2_ExactForEveryFailure ==
    \A c \in Calls : Returned(c) => ResultExact(c)

\* C2 as amended: the result is exact when every write of the call that the
\* store committed was acknowledged; in every case each row counted or not
\* named by errors is persisted, so inserted is at most the number of
\* persisted rows.
C2_ExactWhenAcknowledged ==
    \A c \in Calls :
        Returned(c) =>
            /\ lostAcks[c] = 0 => ResultExact(c)
            /\ result[c].inserted <= Cardinality(OwnRows(c))
            /\ \A k \in 0..(TotalRows(c) - 1) :
                   k \notin ErrorIndices(c) => RowPersisted(c, k)

\* A call whose writes were all acknowledged or rejected has returned with
\* rows inserted and a row refused by the unique constraint.
C2_Witness ==
    \E c \in Calls :
        /\ Returned(c) /\ lostAcks[c] = 0
        /\ result[c].inserted >= 1
        /\ \E j \in 1..Len(result[c].errors) :
               result[c].errors[j].error = "unique_violation"

\* C3: every call that has passed validation eventually returns or raises,
\* given that each of its round-trips eventually completes.
C3_Terminates ==
    \A c \in Calls : (pc[c] = "alloc") ~> Ended(c)

\* A call of five rows has returned after every one of its writes failed:
\* three chunk writes and five row writes.
C3_Witness ==
    \E c \in Calls :
        /\ Returned(c) /\ TotalRows(c) = 5
        /\ Len(attempts[c]) = 8
        /\ ~Succeeded(c, "chunk") /\ ~Succeeded(c, "row")

\* C4: once a batch id is allocated the call does not raise; it returns
\* success = true, and when every write failed it returns inserted = 0 and
\* one error per input row.
C4_NoRaiseAfterAllocation ==
    \A c \in Calls :
        /\ batchId[c] # 0 => pc[c] # "raised"
        /\ Returned(c) =>
            /\ result[c].success
            /\ (\A j \in 1..Len(attempts[c]) :
                    ~Resolves(attempts[c][j].outcome)) =>
                /\ result[c].inserted = 0
                /\ Len(result[c].errors) = TotalRows(c)
                /\ \A j \in 1..TotalRows(c) :
                       result[c].errors[j].rowIndex = j - 1

\* A call of three rows has returned with every write of it failed.
C4_Witness ==
    \E c \in Calls :
        /\ Returned(c) /\ TotalRows(c) = 3
        /\ Failed(c, "bulk")
        /\ \A j \in 1..Len(attempts[c]) : ~Resolves(attempts[c][j].outcome)

\* C5: if the bulk write of the whole set failed and every single-row write
\* succeeded, the call returns inserted = N and no errors, and all N rows
\* are persisted.
C5_DegradedAllRowsSucceed ==
    \A c \in Calls :
        (/\ Returned(c)
         /\ Failed(c, "bulk")
         /\ \A j \in 1..Len(attempts[c]) :
                attempts[c][j].tier = "row" => Resolves(attempts[c][j].outcome))
        => /\ result[c].inserted = TotalRows(c)
           /\ result[c].errors = <<>>
           /\ \A k \in 0..(TotalRows(c) - 1) : RowPersisted(c, k)

\* A call has returned after a failed bulk write and two failed chunk
\* writes, with every one of its row writes succeeded.
C5_Witness ==
    \E c \in Calls :
        /\ Returned(c) /\ Failed(c, "bulk") /\ ~Succeeded(c, "chunk")
        /\ TotalRows(c) >= 3
        /\ Succeeded(c, "row") /\ ~Failed(c, "row")

\* C6: after an upload of N rows has returned with no errors, a fetch of its
\* batch id returns exactly N rows, numbered 1..N in that order, the j-th
\* carrying the j-th input row.
C6_FetchReturnsTheUpload ==
    \A c \in Calls :
        (/\ Returned(c) /\ result[c].errors = <<>>
         /\ lastRead.op = "fetch" /\ lastRead.threw = 0
         /\ lastRead.arg = result[c].batchId)
        => /\ Len(lastRead.rows) = TotalRows(c)
           /\ \A j \in 1..Len(lastRead.rows) :
                  /\ lastRead.rows[j].rowNumber = j
                  /\ lastRead.rows[j].data = sheetDataArray[c][j]

\* C7: a fetch of a positive batch id B returns exactly the stored rows of
\* batch B, in ascending order of rowNumber, and no row of another batch.
C7_FetchExactlyTheBatchSorted ==
    (lastRead.op = "fetch" /\ lastRead.threw = 0) =>
        LET rows == lastRead.rows
            stored == {r \in store : r.batchId = lastRead.arg}
        IN  /\ lastRead.arg >= 1
            /\ {rows[j] : j \in 1..Len(rows)} = {Columns(r) : r \in stored}
            /\ Len(rows) = Cardinality(stored)
            /\ \A j, k \in 1..Len(rows) :
                   j < k => rows[j].rowNumber < rows[k].rowNumber
            /\ \A j \in 1..Len(rows) : rows[j].batchId = lastRead.arg

\* A fetch has returned two rows or more while the store holds a row of
\* another batch.
C7_Witness ==
    /\ lastRead.op = "fetch" /\ lastRead.threw = 0
    /\ Len(lastRead.rows) >= 2
    /\ \E r \in store : r.batchId # lastRead.arg

\* A fetch has returned rows that were written in another order than that
\* of their row numbers.
FetchAgainstWriteOrder ==
    /\ lastRead.op = "fetch" /\ lastRead.threw = 0
    /\ \E j, k \in 1..Len(lastRead.rows) :
           j < k /\ lastRead.rows[j].id > lastRead.rows[k].id

\* A step that answers a read.
ReadStep == lastRead' # lastRead /\ lastRead'.op # "none"

\* C8: a read leaves the store as it is, and a read that repeats the read
\* answered before it, with no write in between, returns the same value.
C8_ReadsRepeatAndLeaveStore ==
    [][ReadStep =>
           /\ store' = store /\ nextId' = nextId
           /\ lastRead'.again =>
                  /\ lastRead'.rows = lastRead.rows
                  /\ lastRead'.ids = lastRead.ids]_vars

\* A fetch has answered the same fetch a second time, with two rows or more.
C8_Witness ==
    /\ lastRead.op = "fetch" /\ lastRead.again
    /\ Len(lastRead.rows) >= 2

C10_SequentialIdsIncrease ==
    \A c, d \in Calls :
        (d \in before[c] /\ batchId[d] # 0 /\ batchId[c] # 0)
        => batchId[c] > batchId[d]

\* C11: a batch id returned to one storeSheetData call is returned to no
\* other call, also when the first call persisted no row.
C11_BatchIdsUnique ==
    \A c, d \in Calls :
        (c # d /\ Returned(c) /\ Returned(d))
        => result[c].batchId # result[d].batchId

\* The errors call c has collected: those it returned, or those of the loop
\* it is in.
ErrorsOf(c) == IF Returned(c) THEN result[c].errors ELSE errors[c]

\* C12: no two stored rows share (batchId, rowNumber); a write the store
\* refuses for that reason does not fail the call: refused at the row tier it
\* is recorded as the error of its row, and a returned call names in errors
\* every row whose (batchId, rowNumber) another call's row holds.
C12_UniqueBatchRow ==
    /\ \A r, q \in store :
           (r.batchId = q.batchId /\ r.rowNumber = q.rowNumber) => r = q
    /\ \A c \in Calls : \A j \in 1..Len(attempts[c]) :
           attempts[c][j].outcome = "unique_violation" =>
               /\ pc[c] # "raised"
               /\ attempts[c][j].tier = "row" =>
                      \E e \in 1..Len(ErrorsOf(c)) :
                          /\ ErrorsOf(c)[e].rowIndex = attempts[c][j].start
                          /\ ErrorsOf(c)[e].error = "unique_violation"
    /\ \A c \in Calls :
           Returned(c) =>
               \A r \in store :
                   (r.batchId = result[c].batchId /\ r.owner # c
                    /\ r.rowNumber <= TotalRows(c))
                   => (r.rowNumber - 1) \in ErrorIndices(c)

\* Two calls have written under one batch id; the store refused a bulk, a
\* chunk and a row write of one of them, which has returned with the row
\* error and with a row of its own inserted.
C12_Witness ==
    \E c \in Calls :
        /\ Returned(c) /\ result[c].inserted >= 1
        /\ \E j, k, l \in 1..Len(attempts[c]) :
               /\ attempts[c][j].tier = "bulk"
               /\ attempts[c][k].tier = "chunk"
               /\ attempts[c][l].tier = "row"
               /\ \A m \in {j, k, l} :
                      attempts[c][m].outcome = "unique_violation"
        /\ \E r \in store : r.batchId = result[c].batchId /\ r.owner # c

\* C13: allocation reserves nothing.  The step in which a call is given its
\* batch id leaves the store as it is, and the id is the one held by every
\* upload in flight whose id no stored row has reached: two uploads that run
\* getNextBatchId before either has written a row hold the same batch id.
C13_AllocationReservesNothing ==
    [][\A c \in Calls :
           (pc[c] = "alloc" /\ batchId'[c] # 0) =>
               /\ store' = store
               /\ \A d \in Calls \ {c} :
                      (/\ InFlight(d) /\ batchId[d] # 0
                       /\ \A r \in store : r.batchId < batchId[d])
                      => batchId'[c] = batchId[d]]_vars

\* Two uploads are in flight with the same batch id, neither having issued
\* a write.
C13_Witness ==
    \E c, d \in Calls :
        /\ c # d /\ InFlight(c) /\ InFlight(d)
        /\ batchId[c] # 0 /\ batchId[c] = batchId[d]
        /\ attempts[c] = <<>> /\ attempts[d] = <<>>

\* C14: the collision handling does not keep apart two uploads that share a
\* batch id.  A fetch of the id returns the rows every one of them stored
\* under it, and a returned upload has stored each of its rows whose number
\* no other upload of the id reaches, unless a single-row write of that row
\* found the store unavailable: rows of both uploads come back in one fetch.
C14_SharedBatchMixesUploads ==
    /\ (lastRead.op = "fetch" /\ lastRead.threw = 0) =>
           \A r \in store :
               r.batchId = lastRead.arg =>
                   \E j \in 1..Len(lastRead.rows) : lastRead.rows[j] = Columns(r)
    /\ \A d \in Calls :
           Returned(d) =>
               \A k \in 0..(TotalRows(d) - 1) :
                   (/\ \A c \in Calls \ {d} :
                           batchId[c] = batchId[d] => TotalRows(c) <= k
                    /\ \A j \in 1..Len(attempts[d]) :
                           (attempts[d][j].tier = "row" /\ attempts[d][j].start = k)
                           => attempts[d][j].outcome # "unavailable")
                   => RowPersisted(d, k)

\* A fetch has returned rows that two uploads stored under one batch id.
C14_Witness ==
    /\ lastRead.op = "fetch" /\ lastRead.threw = 0
    /\ \E r, q \in store :
           /\ r.batchId = lastRead.arg /\ q.batchId = lastRead.arg
           /\ r.owner # q.owner
           /\ \E j, k \in 1..Len(lastRead.rows) :
                  lastRead.rows[j] = Columns(r) /\ lastRead.rows[k] = Columns(q)

\* The request of call c has received a response.
Answered(c) == Len(responses[c]) >= 1

\* C15: a POST request whose sheetData is missing, not an array or an empty
\* array is answered with status 400; no batch id is allocated for it and
\* it writes nothing to the store.
C15_InvalidUploadAnswered400 ==
    \A c \in Calls :
        (/\ request[c].parsed
         /\ \/ ~request[c].present
            \/ ~request[c].isArray
            \/ Len(request[c].rows) = 0)
        => /\ Len(responses[c]) = 1
           /\ responses[c][1].status = 400
           /\ ~responses[c][1].success
           /\ batchId[c] = 0
           /\ attempts[c] = <<>>
           /\ \A r \in store : r.owner # c

\* A request with an empty sheetData array has been answered while the store
\* holds the rows of an earlier upload.
C15_Witness ==
    /\ store # {}
    /\ \E c \in Calls :
           /\ Answered(c) /\ request[c].isArray /\ Len(request[c].rows) = 0
           /\ c > 1

\* C16: when storeSheetData returns, the request is answered with 200
\* exactly when the result has no row error and with 207 and the error list
\* exactly when it has one or more; the body has success = true and the
\* batchId and inserted of the result.
C16_UploadStatusFollowsErrors ==
    \A c \in Calls :
        Returned(c) =>
            /\ Len(responses[c]) = 1
            /\ LET r == responses[c][1] IN
               /\ r.status = 200 <=> Len(result[c].errors) = 0
               /\ r.status = 207 <=> Len(result[c].errors) >= 1
               /\ r.status = 207 => r.errors = result[c].errors
               /\ r.success
               /\ r.batchId = result[c].batchId
               /\ r.inserted = result[c].inserted

\* One request has been answered 207 with rows inserted and another 200.
C16_Witness ==
    \E c, d \in Calls :
        /\ Returned(c) /\ Returned(d)
        /\ responses[c][1].status = 207 /\ responses[c][1].inserted >= 1
        /\ responses[d][1].status = 200

\* The parameter is the decimal numeral of a positive integer.
IsPositiveInteger(str) ==
    /\ str # <<>>
    /\ \A j \in 1..Len(str) : IsDigit(str[j])
    /\ DecimalValue(str) >= 1

\* C17: GET /api/batch/:batchId answers 400 whenever the parameter is not a
\* positive integer, 404 whenever it is one and the store holds no row for
\* it, and otherwise 200 with count the number of rows returned.
C17_BatchStatusByParameter ==
    reply.route = "batch" =>
        IF ~IsPositiveInteger(reply.param)
        THEN reply.status = 400
        ELSE IF \A r \in store : r.batchId # DecimalValue(reply.param)
        THEN reply.status = 404
        ELSE /\ reply.status = 200
             /\ reply.count = Len(lastRead.rows)

\* C18: if the allocation query fails or yields no usable integer,
\* storeSheetData raises a request-level failure; the call has no batch id,
\* has attempted no write of any tier and has put nothing into the store.
C18_AllocationFailureRaises ==
    \A c \in Calls :
        raised[c] # NoRaise =>
            /\ pc[c] = "raised"
            /\ batchId[c] = 0
            /\ attempts[c] = <<>>
            /\ \A r \in store : r.owner # c
            /\ Len(responses[c]) = 1
            /\ ~responses[c][1].success
            /\ responses[c][1].status = raised[c].statusCode

\* An upload has raised at its allocation while the store holds the rows of
\* another.
C18_Witness ==
    \E c \in Calls :
        /\ pc[c] = "raised" /\ raised[c].statusCode = 500
        /\ store # {}

\* C19: when the allocation query cannot run because the store is
\* unreachable, the request is answered with status 503.
C19_UnreachableStoreAnswered503 ==
    \A c \in Calls :
        raised[c].message = "Failed to get next batch ID" =>
            responses[c][1].status = 503

\* The request of call c was answered with a failure.
Refused(c) == Answered(c) /\ ~responses[c][1].success

\* C20: every request is answered, and exactly once, also when its handler
\* fails; and once a request has failed, every other request is still
\* accepted and answered.
C20_EveryRequestAnsweredOnce ==
    /\ [](\A c \in Calls : Len(responses[c]) <= 1)
    /\ \A c \in Calls : (pc[c] # "idle") ~> (Len(responses[c]) = 1)
    /\ \A c, d \in Calls : Refused(c) ~> (Len(responses[d]) = 1)

\* A request has been answered 200 after an earlier one failed at its
\* allocation and was answered 500.
C20_Witness ==
    \E c, d \in Calls :
        /\ c \in before[d]
        /\ pc[c] = "raised" /\ responses[c][1].status = 500
        /\ Returned(d) /\ responses[d][1].status = 200

\* C21: getNextBatchId returns 1 when the store holds no row and otherwise
\* one more than the largest batchId stored at the time of the query; whether
\* it returns or throws, it leaves the store as it is.
C21_AllocatorIsMaxPlusOne ==
    [][\A c \in Calls :
           (pc[c] = "alloc" /\ pc'[c] # "alloc") =>
               /\ store' = store /\ nextId' = nextId
               /\ batchId'[c] # 0 =>
                      /\ store = {} => batchId'[c] = 1
                      /\ store # {} =>
                             /\ \A r \in store : r.batchId < batchId'[c]
                             /\ \E r \in store : r.batchId + 1 = batchId'[c]]_vars

\* A call has been given batch id 2 by a store holding two rows or more of
\* batch 1, and has not written yet.
C21_Witness ==
    \E c \in Calls :
        /\ InFlight(c) /\ batchId[c] = 2 /\ attempts[c] = <<>>
        /\ Cardinality(store) >= 2

\* Attempt a includes input row k (zero-based).
Covers(a, k) == a.start <= k /\ k < a.end

\* The positions in the log of call c of its writes of one tier.
AttemptsOf(c, tier) ==
    {j \in 1..Len(attempts[c]) : attempts[c][j].tier = tier}

\* C22: an upload of at most LargeThreshold rows first attempts one write of
\* the whole row set, never a second, and issues chunk writes only after
\* that write failed; an upload of more rows attempts no write of the whole
\* row set and starts with a chunk write.
C22_BulkFirstUnlessLarge ==
    \A c \in Calls :
        attempts[c] # <<>> =>
            LET a == attempts[c] IN
            IF TotalRows(c) <= LargeThreshold
            THEN /\ a[1].tier = "bulk"
                 /\ a[1].start = 0 /\ a[1].end = TotalRows(c)
                 /\ AttemptsOf(c, "bulk") = {1}
                 /\ Len(a) >= 2 =>
                        ~Resolves(a[1].outcome) /\ a[2].tier = "chunk"
            ELSE /\ a[1].tier = "chunk"
                 /\ AttemptsOf(c, "bulk") = {}
                 /\ \A j \in 1..Len(a) :
                        ~(a[j].start = 0 /\ a[j].end = TotalRows(c))

\* An upload of exactly LargeThreshold rows has returned after a failed
\* bulk write and two chunk writes.
C22_Witness ==
    \E c \in Calls :
        /\ Returned(c) /\ TotalRows(c) = LargeThreshold
        /\ Failed(c, "bulk")
        /\ Cardinality(AttemptsOf(c, "chunk")) = 2

\* An upload of more than LargeThreshold rows has returned.
LargeUploadReturned ==
    \E c \in Calls : Returned(c) /\ TotalRows(c) > LargeThreshold

\* Call c is an upload at or below the threshold whose bulk write failed.
SmallAfterFailedBulk(c) ==
    /\ Returned(c) /\ TotalRows(c) <= LargeThreshold
    /\ Failed(c, "bulk")

\* C23 as stated: after the failed bulk write of an upload at or below the
\* threshold every input row is written individually.
C23_EveryRowWrittenIndividually ==
    \A c \in Calls :
        SmallAfterFailedBulk(c) =>
            \A k \in 0..(TotalRows(c) - 1) :
                \E j \in AttemptsOf(c, "row") : attempts[c][j].start = k

\* C23 as amended: after the failed bulk write every input row is included
\* in one chunk write; it is written individually exactly when that chunk
\* write failed, and then its own write alone decides whether it is counted
\* or named in errors.
C23_RowsOfFailedChunksIndividually ==
    \A c \in Calls :
        SmallAfterFailedBulk(c) =>
            \A k \in 0..(TotalRows(c) - 1) :
                /\ \E j \in AttemptsOf(c, "chunk") :
                       /\ Covers(attempts[c][j], k)
                       /\ (\E i \in AttemptsOf(c, "row") : attempts[c][i].start = k)
                              <=> ~Resolves(attempts[c][j].outcome)
                /\ \A i \in AttemptsOf(c, "row") :
                       attempts[c][i].start = k =>
                           (k \in ErrorIndices(c) <=> ~Resolves(attempts[c][i].outcome))

\* An upload of three rows has returned after its bulk write failed: the
\* first chunk write failed, row 0 was written, the write of row 1 failed,
\* and the chunk write of row 2 succeeded.
C23_Witness ==
    \E c \in Calls :
        /\ SmallAfterFailedBulk(c) /\ TotalRows(c) = 3
        /\ result[c].inserted = 2 /\ ErrorIndices(c) = {1}
        /\ AttemptsOf(c, "row") # {}
        /\ \E j \in AttemptsOf(c, "chunk") :
               attempts[c][j].start = CHUNK_SIZE /\ Resolves(attempts[c][j].outcome)

\* Row k of call c has been included in a write.
Tried(c, k) == \E j \in 1..Len(attempts[c]) : Covers(attempts[c][j], k)

\* The position of the first write of call c that includes row k.
FirstAttempt(c, k) ==
    CHOOSE j \in 1..Len(attempts[c]) :
        /\ Covers(attempts[c][j], k)
        /\ \A i \in 1..(j - 1) : ~Covers(attempts[c][i], k)

\* C24: within one call chunk writes are issued in increasing chunk order
\* and single-row writes in increasing row index, and the first write that
\* includes row i + 1 is never issued before the first that includes row i.
C24_WritesInInputOrder ==
    \A c \in Calls :
        /\ \A j, l \in 1..Len(attempts[c]) :
               (/\ j < l
                /\ attempts[c][j].tier = attempts[c][l].tier
                /\ attempts[c][j].tier \in {"chunk", "row"})
               => attempts[c][j].start < attempts[c][l].start
        /\ \A k \in 0..(TotalRows(c) - 2) :
               Tried(c, k + 1) =>
                   /\ Tried(c, k)
                   /\ FirstAttempt(c, k) <= FirstAttempt(c, k + 1)

\* An upload of five rows has returned with single-row writes in its first
\* and in its last chunk.
C24_Witness ==
    \E c \in Calls :
        /\ Returned(c) /\ TotalRows(c) = 5
        /\ \E j, l \in AttemptsOf(c, "row") :
               attempts[c][j].start = 0 /\ attempts[c][l].start = 4

\* C25: a failed chunk write degrades that chunk only.  Of a returned call
\* that wrote in chunks every chunk was attempted as one chunk write, once;
\* every row of a failed chunk was written individually, once, whatever
\* became of the rows before it, and no other row was.
C25_FailedChunkDegradesAlone ==
    \A c \in Calls :
        (Returned(c) /\ ~Succeeded(c, "bulk")) =>
            /\ \A i \in 0..(TotalChunks(c) - 1) :
                   Cardinality({j \in AttemptsOf(c, "chunk") :
                                   attempts[c][j].start = i * CHUNK_SIZE}) = 1
            /\ \A k \in 0..(TotalRows(c) - 1) :
                   Cardinality({j \in AttemptsOf(c, "row") :
                                   attempts[c][j].start = k})
                     = IF \E j \in AttemptsOf(c, "chunk") :
                              /\ Covers(attempts[c][j], k)
                              /\ ~Resolves(attempts[c][j].outcome)
                       THEN 1 ELSE 0

\* An upload of five rows has returned: its first chunk write failed and so
\* did the write of row 0, row 1 was written, the second chunk write
\* succeeded and the third was attempted.
C25_Witness ==
    \E c \in Calls :
        /\ Returned(c) /\ TotalRows(c) = 5
        /\ 0 \in ErrorIndices(c) /\ 1 \notin ErrorIndices(c)
        /\ \E j, l \in AttemptsOf(c, "chunk") :
               /\ attempts[c][j].start = CHUNK_SIZE
               /\ Resolves(attempts[c][j].outcome)
               /\ attempts[c][l].start = 2 * CHUNK_SIZE

\* The chunk writes of call c, in the order issued.
IsChunkWrite(a) == a.tier = "chunk"

ChunkLog(c) == SelectSeq(attempts[c], IsChunkWrite)

\* C26: the chunks of a call are consecutive ranges of the input, each of
\* CHUNK_SIZE rows but the last, which may be shorter: the first starts at
\* row 0, each next one where the one before ended, the last ends at row N,
\* there are ceil(N / CHUNK_SIZE) of them and every row is in exactly one.
C26_ChunksPartitionTheInput ==
    \A c \in Calls :
        (Returned(c) /\ ~Succeeded(c, "bulk")) =>
            LET log == ChunkLog(c)
                n   == Len(log)
            IN  /\ n >= 1
                /\ log[1].start = 0 /\ log[n].end = TotalRows(c)
                /\ \A j \in 1..(n - 1) :
                       /\ log[j + 1].start = log[j].end
                       /\ log[j].end - log[j].start = CHUNK_SIZE
                /\ log[n].end - log[n].start \in 1..CHUNK_SIZE
                /\ (n - 1) * CHUNK_SIZE < TotalRows(c)
                /\ TotalRows(c) <= n * CHUNK_SIZE
                /\ \A k \in 0..(TotalRows(c) - 1) :
                       Cardinality({j \in 1..n : Covers(log[j], k)}) = 1

\* An upload of five rows has returned having written three chunks, the
\* last of one row.
C26_Witness ==
    \E c \in Calls :
        /\ Returned(c) /\ TotalRows(c) = 5
        /\ Len(ChunkLog(c)) = 3
        /\ ChunkLog(c)[3].end - ChunkLog(c)[3].start = 1

\* The rows of call c whose individual write failed.
FailedRowWrites(c) ==
    {attempts[c][j].start :
        j \in {i \in AttemptsOf(c, "row") : ~Resolves(attempts[c][i].outcome)}}

\* C27: every entry of errors has 0 <= rowIndex < N, rowNumber = rowIndex + 1
\* and rowData the input row at rowIndex; the entries are in increasing
\* rowIndex, so none appears twice.  When only the write of row 2 of a
\* 3-row upload fails, the result is inserted = 2 and the one error
\* {rowIndex 1, rowNumber 2}.
C27_ErrorsNameInputRows ==
    \A c \in Calls :
        LET errs == ErrorsOf(c) IN
        /\ \A j \in 1..Len(errs) :
               /\ 0 <= errs[j].rowIndex /\ errs[j].rowIndex < TotalRows(c)
               /\ errs[j].rowNumber = errs[j].rowIndex + 1
               /\ errs[j].rowData = At(sheetDataArray[c], errs[j].rowIndex)
        /\ \A j \in 1..(Len(errs) - 1) :
               errs[j].rowIndex < errs[j + 1].rowIndex
        /\ (Returned(c) /\ TotalRows(c) = 3 /\ FailedRowWrites(c) = {1}) =>
               /\ result[c].inserted = 2
               /\ Len(result[c].errors) = 1
               /\ result[c].errors[1].rowIndex = 1
               /\ result[c].errors[1].rowNumber = 2

\* A 3-row upload has returned of which only the write of row 2 failed.
C27_Witness ==
    \E c \in Calls :
        /\ Returned(c) /\ TotalRows(c) = 3 /\ FailedRowWrites(c) = {1}
        /\ result[c].errors[1].rowData = At(sheetDataArray[c], 1)
        /\ result[c].errors[1].rowData # At(sheetDataArray[c], 0)

\* C28: the store is append-only: a row once persisted is in every later
\* state with the same id, batch id, row number and payload; no step of an
\* upload, a fetch or a listing removes or changes a row.
C28_StoreAppendOnly ==
    [][store \subseteq store']_vars

\* Two uploads have returned having each persisted rows, and a read of the
\* store they left has been answered.
C28_Witness ==
    /\ \E c, d \in Calls :
           /\ c # d /\ Returned(c) /\ Returned(d)
           /\ OwnRows(c) # {} /\ OwnRows(d) # {}
    /\ lastRead # NoRead /\ lastRead.threw = 0

\* Every write of every call so far either committed and was acknowledged,
\* or committed nothing and was rejected.
WritesAtomic == TotalLost = 0

\* The batch ids that returned calls were given.
ReturnedBatchIds == {result[c].batchId : c \in {d \in Calls : Returned(d)}}

\* The sum of inserted over the returned calls given batch id b.
InsertedUnder(b) ==
    SumTo([c \in Calls |->
              IF Returned(c) /\ result[c].batchId = b
              THEN result[c].inserted ELSE 0], MaxCalls)

\* Call c counts its input row k as inserted.
CountedInserted(c, k) ==
    Returned(c) /\ k < TotalRows(c) /\ k \notin ErrorIndices(c)

\* C29: when every write was atomic and no upload is in flight, whatever the
\* interleaving was, the rows stored under a batch id are as many as the
\* inserted counts of the uploads given that id add up to, and no
\* (batchId, rowNumber) is counted as inserted by two uploads.
C29_SharedBatchCountsAddUp ==
    (WritesAtomic /\ \A c \in Calls : ~InFlight(c)) =>
        /\ \A b \in ReturnedBatchIds :
               Cardinality({r \in store : r.batchId = b}) = InsertedUnder(b)
        /\ \A r \in store : r.batchId \in ReturnedBatchIds
        /\ \A c, d \in Calls :
               (/\ c # d /\ Returned(c) /\ Returned(d)
                /\ result[c].batchId = result[d].batchId)
               => \A k \in 0..(MaxRows - 1) :
                      ~(CountedInserted(c, k) /\ CountedInserted(d, k))

\* Two uploads that overlapped were given the same batch id and have both
\* returned having each counted rows as inserted, all writes atomic.
C29_Witness ==
    /\ WritesAtomic
    /\ \E c, d \in Calls :
           /\ c # d /\ Returned(c) /\ Returned(d)
           /\ result[c].batchId = result[d].batchId
           /\ result[c].inserted >= 1 /\ result[d].inserted >= 1
           /\ Len(result[d].errors) >= 1

\* C30: a row is written individually only after the chunk write that
\* included it failed; a row included in a bulk or chunk write that
\* succeeded is in no later write; so each row is in at most three writes
\* and a call issues at most 1 + ceil(N / CHUNK_SIZE) + N writes.
C30_WritesBounded ==
    \A c \in Calls :
        LET a == attempts[c] IN
        /\ \A j \in AttemptsOf(c, "row") :
               \E i \in 1..(j - 1) :
                   /\ a[i].tier = "chunk" /\ Covers(a[i], a[j].start)
                   /\ ~Resolves(a[i].outcome)
        /\ \A i, j \in 1..Len(a) :
               (i < j /\ a[i].tier \in {"bulk", "chunk"} /\ Resolves(a[i].outcome))
               => \A k \in 0..(TotalRows(c) - 1) :
                      ~(Covers(a[i], k) /\ Covers(a[j], k))
        /\ \A k \in 0..(TotalRows(c) - 1) :
               Cardinality({j \in 1..Len(a) : Covers(a[j], k)}) <= 3
        /\ Len(a) <= 1 + TotalChunks(c) + TotalRows(c)

\* An upload of exactly LargeThreshold rows has returned having issued all
\* of its 1 + ceil(N / CHUNK_SIZE) + N writes, each row in three of them.
C30_Witness ==
    \E c \in Calls :
        /\ Returned(c) /\ TotalRows(c) = LargeThreshold
        /\ Len(attempts[c]) = 1 + TotalChunks(c) + TotalRows(c)
        /\ \A k \in 0..(TotalRows(c) - 1) :
               Cardinality({j \in 1..Len(attempts[c]) :
                               Covers(attempts[c][j], k)}) = 3

====
